---- MODULE Spec2Model ----
(***************************************************************************)
(* Model of prometheus_fastapi_instrumentator/metrics.py.                  *)
(*                                                                         *)
(* State: the prometheus_client collector registry the metric factories    *)
(* register their instruments in (with every instrument's series), the     *)
(* instrumentation closures the factories returned, and a record of the    *)
(* last call (its inputs, and the exception it raised, if any).  The bag    *)
(* `observed` is a history of the latency observe calls that returned.     *)
(*                                                                         *)
(* Python values are tagged records: None, str (a sequence of characters)  *)
(* and int.  Floats (durations, bucket bounds) are integers in hundredths  *)
(* of a second, with Inf standing for float("inf").                        *)
(***************************************************************************)
EXTENDS Integers, Sequences, FiniteSets, Bags, TLC

VARIABLES registry, closures, call, observed, nfactory, nobserve

vars == <<registry, closures, call, observed, nfactory, nobserve>>

\* Bounds of the model: the number of factory calls and of observe calls.
MaxFactoryCalls == 3
MaxObserveCalls == 3

----------------------------------------------------------------------------
\* Python values

PyNone == [t |-> "None"]
PyStr(s) == [t |-> "str", s |-> s]
PyInt(n) == [t |-> "int", n |-> n]

\* float("inf"): above every finite duration and bucket bound of the model.
Inf == 1000000

Digits == <<"0", "1", "2", "3", "4", "5", "6", "7", "8", "9">>

IsDigit(c) == \E d \in 1..10 : Digits[d] = c

DigitValue(c) == (CHOOSE d \in 1..10 : Digits[d] = c) - 1

RECURSIVE ParseDigits(_)
ParseDigits(s) ==
    IF Len(s) = 0 THEN 0
    ELSE 10 * ParseDigits(SubSeq(s, 1, Len(s) - 1)) + DigitValue(s[Len(s)])

\* int(v), as IntOf(v), raises ValueError on a string that is no decimal number and
\* TypeError on None; IntRaises names the exception, "" when there is none.
IntRaises(v) ==
    CASE v.t = "int" -> ""
      [] v.t = "None" -> "TypeError"
      [] v.t = "str" ->
            IF Len(v.s) > 0 /\ \A i \in 1..Len(v.s) : IsDigit(v.s[i])
            THEN "" ELSE "ValueError"

IntOf(v) == IF v.t = "int" THEN v.n ELSE ParseDigits(v.s)

\* Python truthiness: None and the empty string are false.
Truthy(v) ==
    CASE v.t = "None" -> FALSE
      [] v.t = "str" -> Len(v.s) > 0
      [] v.t = "int" -> v.n # 0

\* headers.get(key, default): headers is a function from header names to
\* character sequences.
HeadersGet(headers, key, default) ==
    IF key \in DOMAIN headers THEN PyStr(headers[key]) ELSE default

----------------------------------------------------------------------------
\* Info and the label selector

GetAttr(info, attribute_name) ==
    CASE attribute_name = "modified_handler" -> info.modified_handler
      [] attribute_name = "method" -> info.method
      [] attribute_name = "modified_status" -> info.modified_status

BuildLabelAttributeNamesSwapped(should_include_handler, should_include_method, should_include_status) ==
    LET l1 == IF should_include_handler THEN <<"handler">> ELSE <<>>
        a1 == IF should_include_method THEN <<"method">> ELSE <<>>
        l2 == IF should_include_method THEN Append(l1, "method") ELSE l1
        a2 == IF should_include_handler THEN Append(a1, "modified_handler") ELSE a1
        l3 == IF should_include_status THEN Append(l2, "status") ELSE l2
        a3 == IF should_include_status THEN Append(a2, "modified_status") ELSE a2
    IN  <<l3, a3>>

BuildLabelAttributeNames(should_include_handler, should_include_method, should_include_status) ==
    LET l1 == IF should_include_handler THEN <<"handler">> ELSE <<>>
        a1 == IF should_include_handler THEN <<"modified_handler">> ELSE <<>>
        l2 == IF should_include_method THEN Append(l1, "method") ELSE l1
        a2 == IF should_include_method THEN Append(a1, "method") ELSE a1
        l3 == IF should_include_status THEN Append(l2, "status") ELSE l2
        a3 == IF should_include_status THEN Append(a2, "modified_status") ELSE a2
    IN  <<l3, a3>>

\* The loop "for attribute_name in info_attribute_names: label_values.append(
\* getattr(info, attribute_name))".
LabelValues(info, info_attribute_names) ==
    [i \in 1..Len(info_attribute_names) |-> GetAttr(info, info_attribute_names[i])]

----------------------------------------------------------------------------
\* The prometheus_client instruments the code constructs and updates.  A
\* constructor registers the new instrument in the registry, which rejects a
\* name it already holds; a Histogram first validates its buckets.

DuplicateError == "ValueError: Duplicated timeseries in CollectorRegistry"
NotSortedError == "ValueError: Buckets not in sorted order"
TooFewBucketsError == "ValueError: Must have at least two buckets"
LabelCountError == "ValueError: Incorrect label count"
MissingLabelsError == "ValueError: metric is missing label values"
IndexError == "IndexError: tuple index out of range"
AttributeError == "AttributeError: 'NoneType' object has no attribute 'headers'"
ValueError == "ValueError: invalid literal for int()"

FullName(metric_namespace, metric_subsystem, metric_name) ==
    <<metric_namespace, metric_subsystem, metric_name>>

RegisteredNames(reg) == {reg[i].name : i \in 1..Len(reg)}

IsSorted(buckets) ==
    \A i \in 1..Len(buckets), j \in 1..Len(buckets) : i < j => buckets[i] <= buckets[j]

\* Histogram's own bucket preparation: sorted, Inf appended when missing, at
\* least two buckets.
UpperBounds(buckets) ==
    IF Len(buckets) > 0 /\ buckets[Len(buckets)] # Inf THEN Append(buckets, Inf) ELSE buckets

ZeroSample(kind, buckets) ==
    CASE kind = "counter" -> [value |-> 0]
      [] kind = "summary" -> [count |-> 0, sum |-> 0]
      [] kind = "histogram" ->
            [sum |-> 0, buckets |-> [i \in 1..Len(UpperBounds(buckets)) |-> 0]]

\* The instrument a constructor call builds: a label-free instrument starts
\* with its one series, a labelled one with none.
NewInstrument(kind, name, labelnames, buckets) ==
    [name |-> name, kind |-> kind, labelnames |-> labelnames, buckets |-> buckets,
     series |-> IF Len(labelnames) = 0 THEN (<<>> :> ZeroSample(kind, buckets))
                ELSE [k \in {} |-> ZeroSample(kind, buckets)]]

ConstructRaises(reg, inst) ==
    IF inst.kind = "histogram" /\ ~IsSorted(inst.buckets) THEN NotSortedError
    ELSE IF inst.kind = "histogram" /\ Len(UpperBounds(inst.buckets)) < 2 THEN TooFewBucketsError
    ELSE IF inst.name \in RegisteredNames(reg) THEN DuplicateError
    ELSE ""

\* METRIC.labels(*label_values) raises unless it is given one value per label
\* name of a labelled instrument.
LabelsRaises(inst, label_values) ==
    IF Len(inst.labelnames) = 0 \/ Len(label_values) # Len(inst.labelnames)
    THEN LabelCountError ELSE ""

\* METRIC.labels(*label_values): the series is created on first use.
Labels(inst, label_values) ==
    IF label_values \in DOMAIN inst.series THEN inst
    ELSE [inst EXCEPT !.series = @ @@ (label_values :> ZeroSample(inst.kind, inst.buckets))]

SummaryObserve(inst, key, amount) ==
    [inst EXCEPT !.series[key] = [count |-> @.count + 1, sum |-> @.sum + amount]]

CounterInc(inst, key) ==
    [inst EXCEPT !.series[key] = [value |-> @.value + 1]]

\* Histogram.observe: the sum grows, and the first bucket whose upper bound
\* is at least the amount counts it.
FirstBucket(upper_bounds, amount) ==
    CHOOSE i \in 1..Len(upper_bounds) :
        /\ amount <= upper_bounds[i]
        /\ \A j \in 1..(i - 1) : ~(amount <= upper_bounds[j])

HistogramObserve(inst, key, amount) ==
    [inst EXCEPT !.series[key] =
        [sum |-> @.sum + amount,
         buckets |-> [@.buckets EXCEPT ![FirstBucket(UpperBounds(inst.buckets), amount)] = @ + 1]]]

RECURSIVE SumTo(_, _)
SumTo(counts, i) == IF i = 0 THEN 0 ELSE SumTo(counts, i - 1) + counts[i]

\* What a scrape shows for bucket i of a histogram series: the cumulative count.
CumulativeCount(sample, i) == SumTo(sample.buckets, i)

----------------------------------------------------------------------------
\* The metric factories

NormalizeBucketsAlways(buckets) == buckets \o <<Inf>>

\* "if buckets[-1] != float('inf'): buckets = buckets + (float('inf'),)"
NormalizeBuckets(buckets) ==
    IF buckets[Len(buckets)] # Inf THEN buckets \o <<Inf>> ELSE buckets

Init ==
    /\ registry = <<>>
    /\ closures = <<>>
    /\ call = [op |-> "init", raised |-> ""]
    /\ observed = EmptyBag
    /\ nfactory = 0
    /\ nobserve = 0

\* "if label_names: METRIC = K(..., labelnames=label_names, ...) else:
\* METRIC = K(...)": without the keyword an instrument has no label names.
Construct(kind, metric_name, metric_namespace, metric_subsystem, label_names, buckets) ==
    IF Len(label_names) > 0
    THEN NewInstrument(kind, FullName(metric_namespace, metric_subsystem, metric_name),
                       label_names, buckets)
    ELSE NewInstrument(kind, FullName(metric_namespace, metric_subsystem, metric_name),
                       <<>>, buckets)

SingleFactoryUnchecked(op, inst, names, args, precheck) ==
    /\ nfactory' = nfactory + 1
    /\ nobserve' = nobserve
    /\ observed' = observed
    /\ call' = [op |-> op, args |-> args, raised |-> precheck]
    /\ IF precheck # ""
       THEN UNCHANGED <<registry, closures>>
       ELSE /\ registry' = Append(registry, inst)
            /\ closures' = Append(closures,
                   [fn |-> op, METRIC |-> Len(registry) + 1,
                    label_names |-> names[1], info_attribute_names |-> names[2]])

\* A factory of one instrument: the constructor call either raises, and the
\* factory returns nothing, or registers the instrument, and the factory
\* returns the closure over it and the label and attribute names.
SingleFactory(op, inst, names, args, precheck) ==
    LET raised == IF precheck # "" THEN precheck ELSE ConstructRaises(registry, inst)
    IN  /\ nfactory' = nfactory + 1
        /\ nobserve' = nobserve
        /\ observed' = observed
        /\ call' = [op |-> op, args |-> args, raised |-> raised]
        /\ IF raised # ""
           THEN UNCHANGED <<registry, closures>>
           ELSE /\ registry' = Append(registry, inst)
                /\ closures' = Append(closures,
                       [fn |-> op, METRIC |-> Len(registry) + 1,
                        label_names |-> names[1], info_attribute_names |-> names[2]])

Latency(metric_name, metric_namespace, metric_subsystem, should_include_handler, should_include_method, should_include_status, buckets) ==
    /\ nfactory < MaxFactoryCalls
    /\ LET precheck == IF Len(buckets) = 0 THEN IndexError ELSE ""
           normalized == IF precheck = "" THEN NormalizeBuckets(buckets) ELSE buckets
           names == BuildLabelAttributeNames(
                        should_include_handler, should_include_method, should_include_status)
           inst == Construct("histogram", metric_name, metric_namespace, metric_subsystem,
                             names[1], normalized)
       IN  SingleFactory("latency", inst, names,
               [metric_name |-> metric_name, metric_namespace |-> metric_namespace,
                metric_subsystem |-> metric_subsystem,
                flags |-> <<should_include_handler, should_include_method,
                            should_include_status>>,
                buckets |-> buckets, normalized |-> normalized],
               precheck)

\* Updating the instrument a closure holds: a bound series of a labelled
\* instrument, the instrument's one series otherwise.
Key(closure, info) ==
    IF Len(closure.label_names) > 0
    THEN LabelValues(info, closure.info_attribute_names) ELSE <<>>

BindRaises(closure, info) ==
    IF Len(closure.label_names) > 0
    THEN LabelsRaises(registry[closure.METRIC], Key(closure, info))
    ELSE IF Len(registry[closure.METRIC].labelnames) > 0 THEN MissingLabelsError ELSE ""

Bound(closure, info) ==
    IF Len(closure.label_names) > 0
    THEN Labels(registry[closure.METRIC], Key(closure, info))
    ELSE registry[closure.METRIC]

ObserveCall(op, c, info, raised, reg) ==
    /\ nobserve < MaxObserveCalls
    /\ nobserve' = nobserve + 1
    /\ nfactory' = nfactory
    /\ closures' = closures
    /\ call' = [op |-> op, closure |-> c, info |-> info, raised |-> raised]
    /\ observed' = IF op = "latency.instrumentation" /\ raised = ""
                   THEN observed (+) SetToBag({<<c, info>>}) ELSE observed
    /\ registry' = reg

LatencyInstrumentationReversed(c, info) ==
    LET closure == closures[c]
        raised == BindRaises(closure, info)
        key == [i \in 1..Len(closure.info_attribute_names) |->
                   GetAttr(info, closure.info_attribute_names[
                       Len(closure.info_attribute_names) + 1 - i])]
    IN  /\ closure.fn = "latency"
        /\ ObserveCall("latency.instrumentation", c, info, raised,
              IF raised # "" THEN registry
              ELSE [registry EXCEPT ![closure.METRIC] =
                       HistogramObserve(Labels(@, key), key, info.modified_duration)])

LatencyInstrumentation(c, info) ==
    LET closure == closures[c]
        raised == BindRaises(closure, info)
    IN  /\ closure.fn = "latency"
        /\ ObserveCall("latency.instrumentation", c, info, raised,
              IF raised # "" THEN registry
              ELSE [registry EXCEPT ![closure.METRIC] =
                       HistogramObserve(Bound(closure, info), Key(closure, info),
                                        info.modified_duration)])

SummaryFactory(op, metric_name, metric_namespace, metric_subsystem, should_include_handler, should_include_method, should_include_status) ==
    LET names == BuildLabelAttributeNames(
                     should_include_handler, should_include_method, should_include_status)
        inst == Construct("summary", metric_name, metric_namespace, metric_subsystem,
                          names[1], <<>>)
    IN  SingleFactory(op, inst, names,
            [metric_name |-> metric_name, metric_namespace |-> metric_namespace,
             metric_subsystem |-> metric_subsystem,
             flags |-> <<should_include_handler, should_include_method, should_include_status>>],
            "")

RequestSize(metric_name, metric_namespace, metric_subsystem, should_include_handler, should_include_method, should_include_status) ==
    /\ nfactory < MaxFactoryCalls
    /\ SummaryFactory("request_size", metric_name, metric_namespace, metric_subsystem,
                      should_include_handler, should_include_method, should_include_status)

ResponseSize(metric_name, metric_namespace, metric_subsystem, should_include_handler, should_include_method, should_include_status) ==
    /\ nfactory < MaxFactoryCalls
    /\ SummaryFactory("response_size", metric_name, metric_namespace, metric_subsystem,
                      should_include_handler, should_include_method, should_include_status)

CombinedSize(metric_name, metric_namespace, metric_subsystem, should_include_handler, should_include_method, should_include_status) ==
    /\ nfactory < MaxFactoryCalls
    /\ SummaryFactory("combined_size", metric_name, metric_namespace, metric_subsystem,
                      should_include_handler, should_include_method, should_include_status)

DefaultInstrumentsReordered(metric_namespace, metric_subsystem, latency_highr_buckets, latency_lowr_buckets) ==
    << NewInstrument("counter",
           FullName(metric_namespace, metric_subsystem, "http_requests_total"),
           <<"method", "status", "handler">>, <<>>),
       NewInstrument("summary",
           FullName(metric_namespace, metric_subsystem, "http_request_size_bytes"),
           <<"handler">>, <<>>),
       NewInstrument("summary",
           FullName(metric_namespace, metric_subsystem, "http_response_size_bytes"),
           <<"handler">>, <<>>),
       NewInstrument("histogram",
           FullName(metric_namespace, metric_subsystem, "http_request_duration_seconds"),
           <<"handler">>, latency_lowr_buckets),
       NewInstrument("histogram",
           FullName(metric_namespace, metric_subsystem, "http_request_duration_highr_seconds"),
           <<>>, latency_highr_buckets) >>

\* The five constructor calls of default, in the order of the code.
DefaultInstruments(metric_namespace, metric_subsystem, latency_highr_buckets, latency_lowr_buckets) ==
    << NewInstrument("counter",
           FullName(metric_namespace, metric_subsystem, "http_requests_total"),
           <<"method", "status", "handler">>, <<>>),
       NewInstrument("summary",
           FullName(metric_namespace, metric_subsystem, "http_request_size_bytes"),
           <<"handler">>, <<>>),
       NewInstrument("summary",
           FullName(metric_namespace, metric_subsystem, "http_response_size_bytes"),
           <<"handler">>, <<>>),
       NewInstrument("histogram",
           FullName(metric_namespace, metric_subsystem, "http_request_duration_highr_seconds"),
           <<>>, latency_highr_buckets),
       NewInstrument("histogram",
           FullName(metric_namespace, metric_subsystem, "http_request_duration_seconds"),
           <<"handler">>, latency_lowr_buckets) >>

\* Constructor calls one after the other: the first that raises ends the
\* factory, and the instruments constructed before it stay registered.
RECURSIVE ConstructAll(_, _, _)
ConstructAll(reg, insts, k) ==
    IF k > Len(insts) THEN [reg |-> reg, raised |-> ""]
    ELSE IF ConstructRaises(reg, insts[k]) # ""
         THEN [reg |-> reg, raised |-> ConstructRaises(reg, insts[k])]
         ELSE ConstructAll(Append(reg, insts[k]), insts, k + 1)

Default(metric_namespace, metric_subsystem, latency_highr_buckets, latency_lowr_buckets) ==
    LET precheck == IF Len(latency_highr_buckets) = 0 \/ Len(latency_lowr_buckets) = 0
                    THEN IndexError ELSE ""
        highr == IF precheck = "" THEN NormalizeBuckets(latency_highr_buckets)
                 ELSE latency_highr_buckets
        lowr == IF precheck = "" THEN NormalizeBuckets(latency_lowr_buckets)
                ELSE latency_lowr_buckets
        built == IF precheck # "" THEN [reg |-> registry, raised |-> precheck]
                 ELSE ConstructAll(registry,
                          DefaultInstruments(metric_namespace, metric_subsystem, highr, lowr), 1)
    IN  /\ nfactory < MaxFactoryCalls
        /\ nfactory' = nfactory + 1
        /\ nobserve' = nobserve
        /\ observed' = observed
        /\ call' = [op |-> "default",
                    args |-> [metric_namespace |-> metric_namespace,
                              metric_subsystem |-> metric_subsystem,
                              latency_highr_buckets |-> latency_highr_buckets,
                              latency_lowr_buckets |-> latency_lowr_buckets,
                              highr |-> highr, lowr |-> lowr],
                    raised |-> built.raised]
        /\ registry' = built.reg
        /\ IF built.raised # ""
           THEN closures' = closures
           ELSE closures' = Append(closures,
                    [fn |-> "default",
                     TOTAL |-> Len(registry) + 1, IN_SIZE |-> Len(registry) + 2,
                     OUT_SIZE |-> Len(registry) + 3, LATENCY_HIGHR |-> Len(registry) + 4,
                     LATENCY_LOWR |-> Len(registry) + 5])

----------------------------------------------------------------------------
\* The instrumentation functions

\* "if label_names: METRIC.labels(*label_values).observe(int(content_length))
\* else: METRIC.observe(int(content_length))": with labels the series is
\* bound, and so created, before int() is evaluated.
SizeObserve(closure, info, content_length) ==
    IF BindRaises(closure, info) # ""
    THEN [raised |-> BindRaises(closure, info), reg |-> registry]
    ELSE IF IntRaises(content_length) # ""
    THEN [raised |-> ValueError,
          reg |-> [registry EXCEPT ![closure.METRIC] = Bound(closure, info)]]
    ELSE [raised |-> "",
          reg |-> [registry EXCEPT ![closure.METRIC] =
                      SummaryObserve(Bound(closure, info), Key(closure, info),
                                     IntOf(content_length))]]

RequestSizeInstrumentationZero(c, info) ==
    LET closure == closures[c]
        content_length == HeadersGet(info.request.headers, "Content-Length", PyInt(0))
        done == SizeObserve(closure, info, content_length)
    IN  /\ closure.fn = "request_size"
        /\ ObserveCall("request_size.instrumentation", c, info, done.raised, done.reg)

RequestSizeInstrumentation(c, info) ==
    LET closure == closures[c]
        content_length == HeadersGet(info.request.headers, "Content-Length", PyNone)
        done == IF content_length.t # "None" THEN SizeObserve(closure, info, content_length)
                ELSE [raised |-> "", reg |-> registry]
    IN  /\ closure.fn = "request_size"
        /\ ObserveCall("request_size.instrumentation", c, info, done.raised, done.reg)

ResponseSizeInstrumentation(c, info) ==
    LET closure == closures[c]
        content_length == HeadersGet(info.response.headers, "Content-Length", PyNone)
        done == IF info.response.t = "None" THEN [raised |-> AttributeError, reg |-> registry]
                ELSE IF content_length.t # "None" THEN SizeObserve(closure, info, content_length)
                ELSE [raised |-> "", reg |-> registry]
    IN  /\ closure.fn = "response_size"
        /\ ObserveCall("response_size.instrumentation", c, info, done.raised, done.reg)

CombinedSizeInstrumentation(c, info) ==
    LET closure == closures[c]
        request_cl == HeadersGet(info.request.headers, "Content-Length", PyNone)
        response_cl == HeadersGet(info.response.headers, "Content-Length", PyNone)
        sumRaises == IF Truthy(request_cl) /\ IntRaises(request_cl) # "" THEN ValueError
                     ELSE IF Truthy(response_cl) /\ IntRaises(response_cl) # "" THEN ValueError
                     ELSE ""
        content_length ==
            IF Truthy(request_cl) /\ Truthy(response_cl)
            THEN PyInt(IntOf(request_cl) + IntOf(response_cl))
            ELSE IF Truthy(request_cl) THEN PyInt(IntOf(request_cl))
            ELSE IF Truthy(response_cl) THEN PyInt(IntOf(response_cl))
            ELSE PyNone
        done == IF info.response.t = "None" THEN [raised |-> AttributeError, reg |-> registry]
                ELSE IF sumRaises # "" THEN [raised |-> sumRaises, reg |-> registry]
                ELSE IF content_length.t # "None" THEN SizeObserve(closure, info, content_length)
                ELSE [raised |-> "", reg |-> registry]
    IN  /\ closure.fn = "combined_size"
        /\ ObserveCall("combined_size.instrumentation", c, info, done.raised, done.reg)

\* The five statements of default's instrumentation, one after the other;
\* each is given the registry the one before it left, and a raised exception
\* ends the call with the updates made so far.
DefaultInstrumentation(c, info) ==
    LET closure == closures[c]
        h == <<info.modified_handler>>
        r1 == [registry EXCEPT ![closure.TOTAL] =
                  CounterInc(Labels(@, <<info.method, info.modified_status, info.modified_handler>>),
                             <<info.method, info.modified_status, info.modified_handler>>)]
        in_cl == HeadersGet(info.request.headers, "Content-Length", PyInt(0))
        r2a == [r1 EXCEPT ![closure.IN_SIZE] = Labels(@, h)]
        r2 == [r2a EXCEPT ![closure.IN_SIZE] = SummaryObserve(@, h, IntOf(in_cl))]
        out_cl == HeadersGet(info.response.headers, "Content-Length", PyInt(0))
        r3a == [r2 EXCEPT ![closure.OUT_SIZE] = Labels(@, h)]
        r3 == [r3a EXCEPT ![closure.OUT_SIZE] = SummaryObserve(@, h, IntOf(out_cl))]
        r4 == [r3 EXCEPT ![closure.LATENCY_HIGHR] =
                  HistogramObserve(@, <<>>, info.modified_duration)]
        r5 == [r4 EXCEPT ![closure.LATENCY_LOWR] =
                  HistogramObserve(Labels(@, h), h, info.modified_duration)]
        done == IF IntRaises(in_cl) # "" THEN [raised |-> ValueError, reg |-> r2a]
                ELSE IF info.response.t = "None" THEN [raised |-> AttributeError, reg |-> r3a]
                ELSE IF IntRaises(out_cl) # "" THEN [raised |-> ValueError, reg |-> r3a]
                ELSE [raised |-> "", reg |-> r5]
    IN  /\ closure.fn = "default"
        /\ ObserveCall("default.instrumentation", c, info, done.raised, done.reg)

----------------------------------------------------------------------------
\* Inputs

Bools == {TRUE, FALSE}

FlagTriples == Bools \X Bools \X Bools

NoHeaders == [k \in {} |-> <<>>]

ContentLength(s) == ("Content-Length" :> s)

Request(headers) == [headers |-> headers]

Response(headers) == [t |-> "Response", headers |-> headers]

MakeInfo(request, response, method, modified_handler, modified_status, modified_duration) ==
    [request |-> request, response |-> response, method |-> method,
     modified_handler |-> modified_handler, modified_status |-> modified_status,
     modified_duration |-> modified_duration]

\* Header sets: absent or a decimal number; the wider set adds the empty
\* string and a string that is no number.
NumberHeaders == {NoHeaders, ContentLength(<<"7">>), ContentLength(<<"1", "2">>)}

AnyHeaders == NumberHeaders \cup {ContentLength(<<>>), ContentLength(<<"x">>)}

\* Responses: none at all (the request failed before one existed), or one
\* with the given headers.
Responses(headers) == {PyNone} \cup {Response(h) : h \in headers}

\* Bucket tuples, in hundredths of a second: a short one without Inf, and
\* the default of latency_lowr_buckets, (0.1, 0.5, 1).
ShortBuckets == <<25, 50, 100>>

LowrBuckets == <<10, 50, 100>>

----------------------------------------------------------------------------
\* Specifications

\* Spec: every factory against one registry, under colliding and distinct
\* names, and every instrumentation function, on a request with and without
\* a response.
SpecInfos ==
    {MakeInfo(Request(ContentLength(<<"7">>)), p, "GET", "/items", "2xx", 42) :
        p \in {PyNone, Response(ContentLength(<<"1", "2">>))}}

Namespaces == {"", "app"}

Next ==
    \/ Latency("http_request_duration_seconds", "", "", TRUE, TRUE, TRUE, ShortBuckets)
    \/ RequestSize("http_request_size_bytes", "", "", TRUE, TRUE, TRUE)
    \/ ResponseSize("http_response_size_bytes", "", "", TRUE, TRUE, TRUE)
    \/ CombinedSize("http_combined_size_bytes", "", "", TRUE, TRUE, TRUE)
    \/ \E ns \in Namespaces : Default(ns, "", ShortBuckets, LowrBuckets)
    \/ \E c \in 1..Len(closures), info \in SpecInfos : LatencyInstrumentation(c, info)
    \/ \E c \in 1..Len(closures), info \in SpecInfos : RequestSizeInstrumentation(c, info)
    \/ \E c \in 1..Len(closures), info \in SpecInfos : ResponseSizeInstrumentation(c, info)
    \/ \E c \in 1..Len(closures), info \in SpecInfos : CombinedSizeInstrumentation(c, info)
    \/ \E c \in 1..Len(closures), info \in SpecInfos : DefaultInstrumentation(c, info)

Spec == Init /\ [][Next]_vars

\* SpecLabels: the four single-instrument factories under all eight flag
\* combinations (one metric name, so one instrument per run), observed with
\* requests whose handler, method and status differ, and with a request that
\* has no response.
LabelInfos ==
    {MakeInfo(Request(ContentLength(<<"7">>)), Response(ContentLength(<<"1", "2">>)),
              "GET", "/items", "2xx", 42),
     MakeInfo(Request(ContentLength(<<"7">>)), Response(ContentLength(<<"1", "2">>)),
              "POST", "none", "5xx", 42),
     MakeInfo(Request(ContentLength(<<"7">>)), PyNone, "GET", "/items", "2xx", 42)}

NextLabels ==
    \/ \E f \in FlagTriples : Latency("m", "", "", f[1], f[2], f[3], ShortBuckets)
    \/ \E f \in FlagTriples : RequestSize("m", "", "", f[1], f[2], f[3])
    \/ \E f \in FlagTriples : ResponseSize("m", "", "", f[1], f[2], f[3])
    \/ \E f \in FlagTriples : CombinedSize("m", "", "", f[1], f[2], f[3])
    \/ \E c \in 1..Len(closures), info \in LabelInfos : LatencyInstrumentation(c, info)
    \/ \E c \in 1..Len(closures), info \in LabelInfos : RequestSizeInstrumentation(c, info)
    \/ \E c \in 1..Len(closures), info \in LabelInfos : ResponseSizeInstrumentation(c, info)
    \/ \E c \in 1..Len(closures), info \in LabelInfos : CombinedSizeInstrumentation(c, info)

SpecLabels == Init /\ [][NextLabels]_vars

\* SpecSizes: the three size summaries (one metric name, labelled by handler
\* or label-free), observed with every combination of an absent, empty,
\* numeric or non-numeric Content-Length and of a present or absent response.
SizeInfos ==
    {MakeInfo(Request(q), p, "GET", "/items", "2xx", 42) :
        q \in AnyHeaders, p \in Responses(AnyHeaders)}

NextSizes ==
    \/ \E h \in Bools : RequestSize("m", "", "", h, FALSE, FALSE)
    \/ \E h \in Bools : ResponseSize("m", "", "", h, FALSE, FALSE)
    \/ \E h \in Bools : CombinedSize("m", "", "", h, FALSE, FALSE)
    \/ \E c \in 1..Len(closures), info \in SizeInfos : RequestSizeInstrumentation(c, info)
    \/ \E c \in 1..Len(closures), info \in SizeInfos : ResponseSizeInstrumentation(c, info)
    \/ \E c \in 1..Len(closures), info \in SizeInfos : CombinedSizeInstrumentation(c, info)

SpecSizes == Init /\ [][NextSizes]_vars

\* SpecDefault: the default bundle, observed with absent and numeric
\* Content-Length headers, with and without a response, on two handlers.
DefaultInfos ==
    {MakeInfo(Request(q), p, "GET", "/items", "2xx", 42) :
        q \in {NoHeaders, ContentLength(<<"7">>)},
        p \in Responses({NoHeaders, ContentLength(<<"1", "2">>)})}
    \cup {MakeInfo(Request(NoHeaders), p, "POST", "none", "5xx", 70) :
             p \in {PyNone, Response(NoHeaders)}}

NextDefault ==
    \/ \E ns \in Namespaces : Default(ns, "", ShortBuckets, LowrBuckets)
    \/ \E c \in 1..Len(closures), info \in DefaultInfos : DefaultInstrumentation(c, info)

SpecDefault == Init /\ [][NextDefault]_vars

\* SpecLatency: latency with all three labels and default, under bucket
\* tuples with and without a last Inf, empty and unsorted, observed with
\* durations below, between and above the finite bounds.
BucketChoices == {ShortBuckets, ShortBuckets \o <<Inf>>, <<50>>, <<Inf>>, <<>>, <<50, 25>>}

LatencyInfos ==
    {MakeInfo(Request(NoHeaders), Response(NoHeaders), "GET", h, "2xx", d) :
        h \in {"/items", "none"}, d \in {10, 42, 500}}

NextLatency ==
    \/ \E b \in BucketChoices :
          Latency("http_request_duration_seconds", "", "", TRUE, TRUE, TRUE, b)
    \/ \E hb \in {ShortBuckets, <<50, Inf>>}, lb \in {LowrBuckets, <<50, Inf>>, <<>>} :
          Default("", "", hb, lb)
    \/ \E c \in 1..Len(closures), info \in LatencyInfos : LatencyInstrumentation(c, info)
    \/ \E c \in 1..Len(closures), info \in LatencyInfos : DefaultInstrumentation(c, info)

SpecLatency == Init /\ [][NextLatency]_vars

----------------------------------------------------------------------------
\* Properties

SingleFactoryOps == {"latency", "request_size", "response_size", "combined_size"}

SingleObserveOps == {"latency.instrumentation", "request_size.instrumentation",
                     "response_size.instrumentation", "combined_size.instrumentation"}

FactoryOps == SingleFactoryOps \cup {"default"}

\* The pairing of label names with Info fields.
FieldOf(label) ==
    CASE label = "handler" -> "modified_handler"
      [] label = "method" -> "method"
      [] label = "status" -> "modified_status"

\* The labels of a flag triple, in the order handler, method, status.
ExpectedLabels(flags) ==
    (IF flags[1] THEN <<"handler">> ELSE <<>>)
        \o (IF flags[2] THEN <<"method">> ELSE <<>>)
        \o (IF flags[3] THEN <<"status">> ELSE <<>>)

\* The series an observe call with `info` belongs to on an instrument with
\* these label names.
ExpectedKey(labelnames, info) ==
    [i \in 1..Len(labelnames) |-> GetAttr(info, FieldOf(labelnames[i]))]

\* C1: for each of the 8 flag combinations the factory's label names are the
\* selected ones of handler, method, status in that order, the attribute
\* names have the same length and are paired with them index by index (none
\* for all-false); the instrument is registered under exactly these label
\* names; and every observe call of latency, request_size, response_size and
\* combined_size binds one value per registered label name, the value at
\* index i being that of the Info field paired with label i, so no call
\* fails on the number of label values.
C1_LabelsMatchFields ==
    /\ call.op \in SingleFactoryOps /\ call.raised = "" =>
          /\ closures[Len(closures)].label_names = ExpectedLabels(call.args.flags)
          /\ (call.args.flags = <<FALSE, FALSE, FALSE>> =>
                 /\ closures[Len(closures)].label_names = <<>>
                 /\ closures[Len(closures)].info_attribute_names = <<>>)
    /\ \A c \in 1..Len(closures) :
          LET closure == closures[c]
              METRIC == registry[closure.METRIC]
          IN  /\ Len(closure.label_names) = Len(closure.info_attribute_names)
              /\ \A i \in 1..Len(closure.label_names) :
                    closure.info_attribute_names[i] = FieldOf(closure.label_names[i])
              /\ METRIC.labelnames = closure.label_names
              /\ \A k \in DOMAIN METRIC.series :
                    /\ Len(k) = Len(METRIC.labelnames)
                    /\ \E info \in LabelInfos : k = ExpectedKey(METRIC.labelnames, info)
    /\ call.op \in SingleObserveOps =>
          /\ call.raised \notin {LabelCountError, MissingLabelsError}
          /\ call.raised = "" =>
                ExpectedKey(registry[closures[call.closure].METRIC].labelnames, call.info)
                    \in DOMAIN registry[closures[call.closure].METRIC].series

\* A summary labelled handler and status has observed the request "none", 5xx.
C1_Witness ==
    /\ call.op = "combined_size.instrumentation"
    /\ call.raised = ""
    /\ closures[call.closure].label_names = <<"handler", "status">>
    /\ closures[call.closure].info_attribute_names = <<"modified_handler", "modified_status">>
    /\ <<"none", "5xx">> \in DOMAIN registry[closures[call.closure].METRIC].series
    /\ registry[closures[call.closure].METRIC].series[<<"none", "5xx">>].count = 1

\* The names of default's five instruments, in the order it registers them.
DefaultNames ==
    <<"http_requests_total", "http_request_size_bytes", "http_response_size_bytes",
      "http_request_duration_highr_seconds", "http_request_duration_seconds">>

\* The full names a factory call asks the registry for.
WantedNames(c) ==
    IF c.op = "default"
    THEN {FullName(c.args.metric_namespace, c.args.metric_subsystem, DefaultNames[k]) : k \in 1..5}
    ELSE {FullName(c.args.metric_namespace, c.args.metric_subsystem, c.args.metric_name)}

UniqueNames(reg) ==
    \A i \in 1..Len(reg), j \in 1..Len(reg) : i # j => reg[i].name # reg[j].name

\* C2: an observe call of response_size, combined_size or default on an Info
\* without a response returns normally.
C2_AbsentResponseTolerated ==
    /\ call.op \in {"response_size.instrumentation", "combined_size.instrumentation",
                    "default.instrumentation"}
    /\ call.info.response.t = "None"
    => call.raised = ""

\* C3: a factory call that asks for a namespace/subsystem/name the registry
\* already holds fails and returns no instrumentation function, and after
\* every step each full name is registered at most once.
C3_DuplicateNamesRejected ==
    [][ /\ (nfactory' # nfactory /\ WantedNames(call') \cap RegisteredNames(registry) # {}) =>
              /\ call'.raised = DuplicateError
              /\ closures' = closures
        /\ UniqueNames(registry') ]_vars

\* default has failed on the name latency registered before it.
C3_Witness ==
    /\ call.op = "default"
    /\ call.raised = DuplicateError
    /\ Len(closures) = 1
    /\ closures[1].fn = "latency"
    /\ registry[1].name = <<"", "", "http_request_duration_seconds">>

\* C10 as stated: a factory call that fails on a duplicate name leaves the
\* registry as it was.
C10_FailedCallLeavesRegistry ==
    [][ (nfactory' # nfactory /\ call'.raised = DuplicateError) => registry' = registry ]_vars

\* The first of default's names, in registration order, that the registry holds.
FirstColliding(reg, c) ==
    CHOOSE k \in 1..5 :
        /\ FullName(c.args.metric_namespace, c.args.metric_subsystem, DefaultNames[k])
              \in RegisteredNames(reg)
        /\ \A j \in 1..(k - 1) :
              FullName(c.args.metric_namespace, c.args.metric_subsystem, DefaultNames[j])
                  \notin RegisteredNames(reg)

\* C10 amended: a single-instrument factory that fails on a duplicate name
\* leaves the registry as it was; a default that fails on one leaves the
\* registry extended by exactly those of its five instruments that precede
\* the first colliding one, in registration order, each without a series
\* observed, and changes nothing else.
C10_FailedCallKeepsPrefix ==
    [][ (nfactory' # nfactory /\ call'.raised = DuplicateError) =>
           /\ closures' = closures
           /\ IF call'.op \in SingleFactoryOps
              THEN registry' = registry
              ELSE LET k == FirstColliding(registry, call')
                   IN  /\ Len(registry') = Len(registry) + k - 1
                       /\ SubSeq(registry', 1, Len(registry)) = registry
                       /\ \A j \in 1..(k - 1) :
                             /\ registry'[Len(registry) + j].name =
                                   FullName(call'.args.metric_namespace,
                                            call'.args.metric_subsystem, DefaultNames[j])
                             /\ \A key \in DOMAIN registry'[Len(registry) + j].series :
                                   registry'[Len(registry) + j].series[key] =
                                       ZeroSample(registry'[Len(registry) + j].kind,
                                                  registry'[Len(registry) + j].buckets) ]_vars

\* latency, then a default that failed on its fifth instrument and left the
\* first four registered.
C10_Witness ==
    /\ call.op = "default"
    /\ call.raised = DuplicateError
    /\ Len(registry) = 5
    /\ registry[1].name = <<"", "", "http_request_duration_seconds">>
    /\ registry[2].name = <<"", "", "http_requests_total">>
    /\ registry[5].name = <<"", "", "http_request_duration_highr_seconds">>

\* The Content-Length a call sees on the request and on the response; a
\* request without a response has no response header.
RequestCL(info) == HeadersGet(info.request.headers, "Content-Length", PyNone)

ResponseCL(info) ==
    IF info.response.t = "None" THEN PyNone
    ELSE HeadersGet(info.response.headers, "Content-Length", PyNone)

Present(v) == v.t # "None"

\* Absent, or present with an integer value.
AbsentOrNumber(v) == ~Present(v) \/ IntRaises(v) = ""

RECURSIVE SumOver(_, _, _)
SumOver(series, keys, field) ==
    IF keys = {} THEN 0
    ELSE LET k == CHOOSE x \in keys : TRUE
         IN  (IF field = "count" THEN series[k].count
              ELSE IF field = "sum" THEN series[k].sum
              ELSE series[k].value)
             + SumOver(series, keys \ {k}, field)

\* A summary's observations and their sum, over all its series.
TotalCount(inst) == SumOver(inst.series, DOMAIN inst.series, "count")

TotalSum(inst) == SumOver(inst.series, DOMAIN inst.series, "sum")

\* Summary m of reg2 is that of reg after one more observation of `amount`
\* on series `key` (created when new).
SummaryObserved(reg, reg2, m, key, amount) ==
    /\ reg2[m].name = reg[m].name /\ reg2[m].labelnames = reg[m].labelnames
    /\ DOMAIN reg2[m].series = DOMAIN reg[m].series \cup {key}
    /\ \A k \in DOMAIN reg[m].series : k # key => reg2[m].series[k] = reg[m].series[k]
    /\ reg2[m].series[key].count =
          (IF key \in DOMAIN reg[m].series THEN reg[m].series[key].count ELSE 0) + 1
    /\ reg2[m].series[key].sum =
          (IF key \in DOMAIN reg[m].series THEN reg[m].series[key].sum ELSE 0) + amount

\* SummaryObserved, and nothing else in the registry differs.
OneSummaryObservation(reg, reg2, m, key, amount) ==
    /\ Len(reg2) = Len(reg)
    /\ \A i \in 1..Len(reg) : i # m => reg2[i] = reg[i]
    /\ SummaryObserved(reg, reg2, m, key, amount)

\* What combined_size is to observe: the sum of the two headers, the one
\* that is present, or nothing (-1).
CombinedExpected(info) ==
    IF Present(RequestCL(info)) /\ Present(ResponseCL(info))
    THEN IntOf(RequestCL(info)) + IntOf(ResponseCL(info))
    ELSE IF Present(RequestCL(info)) THEN IntOf(RequestCL(info))
    ELSE IF Present(ResponseCL(info)) THEN IntOf(ResponseCL(info))
    ELSE -1

CombinedStep(info, reg, reg2, m) ==
    IF CombinedExpected(info) >= 0
    THEN OneSummaryObservation(reg, reg2, m,
             ExpectedKey(reg[m].labelnames, info), CombinedExpected(info))
    ELSE reg2 = reg

\* C4: an observe call of combined_size, on headers that are absent or
\* numbers, records exactly one observation: the sum of the request and
\* response Content-Length when both are present, the one present value when
\* exactly one is; and nothing, leaving the summary as it was, when neither is.
C4_CombinedSizeObserves ==
    [][ (/\ nobserve' # nobserve
         /\ call'.op = "combined_size.instrumentation"
         /\ AbsentOrNumber(RequestCL(call'.info))
         /\ AbsentOrNumber(ResponseCL(call'.info)))
        => CombinedStep(call'.info, registry, registry', closures[call'.closure].METRIC) ]_vars

\* C4 on the requests that have a response.
C4_CombinedSizeObservesWithResponse ==
    [][ (/\ nobserve' # nobserve
         /\ call'.op = "combined_size.instrumentation"
         /\ call'.info.response.t # "None"
         /\ AbsentOrNumber(RequestCL(call'.info))
         /\ AbsentOrNumber(ResponseCL(call'.info)))
        => /\ call'.raised = ""
           /\ CombinedStep(call'.info, registry, registry', closures[call'.closure].METRIC) ]_vars

\* C5: an observe call of request_size (response_size) whose request
\* (response) carries a Content-Length with an integer value records exactly
\* one observation of that value, on the series of the call's labels; a call
\* whose header is absent leaves the whole registry, and so the summary and
\* its set of series, as it was.  By induction on the calls, the summary's
\* count is the number of calls whose header was present.
C5_SizeObservedIffHeaderPresent ==
    [][ (/\ nobserve' # nobserve
         /\ call'.op \in {"request_size.instrumentation", "response_size.instrumentation"})
        => LET info == call'.info
               m == closures[call'.closure].METRIC
               v == IF call'.op = "request_size.instrumentation"
                    THEN RequestCL(info) ELSE ResponseCL(info)
           IN  /\ (Present(v) /\ IntRaises(v) = "") =>
                     /\ call'.raised = ""
                     /\ OneSummaryObservation(registry, registry', m,
                            ExpectedKey(registry[m].labelnames, info), IntOf(v))
                     /\ TotalCount(registry'[m]) = TotalCount(registry[m]) + 1
               /\ ~Present(v) => registry' = registry ]_vars

\* A request_size call without the header, after two calls with it: the
\* summary still holds two observations, 7 + 12.
C5_Witness ==
    /\ call.op = "request_size.instrumentation"
    /\ ~Present(RequestCL(call.info))
    /\ call.raised = ""
    /\ registry[closures[call.closure].METRIC].labelnames = <<"handler">>
    /\ TotalCount(registry[closures[call.closure].METRIC]) = 2
    /\ TotalSum(registry[closures[call.closure].METRIC]) = 19

RECURSIVE HistogramTotal(_, _)
HistogramTotal(series, keys) ==
    IF keys = {} THEN 0
    ELSE LET k == CHOOSE x \in keys : TRUE
         IN  CumulativeCount(series[k], Len(series[k].buckets))
             + HistogramTotal(series, keys \ {k})

\* A histogram's observations, over all its series, and a counter's total.
HistogramCount(inst) == HistogramTotal(inst.series, DOMAIN inst.series)

CounterTotal(inst) == SumOver(inst.series, DOMAIN inst.series, "value")

ValueOr0(inst, key) == IF key \in DOMAIN inst.series THEN inst.series[key].value ELSE 0

HistSumOr0(inst, key) == IF key \in DOMAIN inst.series THEN inst.series[key].sum ELSE 0

HistCountOr0(inst, key) ==
    IF key \in DOMAIN inst.series
    THEN CumulativeCount(inst.series[key], Len(inst.series[key].buckets)) ELSE 0

\* The counter of a default bundle counts the call once, on the series of
\* the call's method, status and handler.
CountedOnce(reg, reg2, closure, info) ==
    LET key == <<info.method, info.modified_status, info.modified_handler>>
    IN  /\ key \in DOMAIN reg2[closure.TOTAL].series
        /\ reg2[closure.TOTAL].series[key].value = ValueOr0(reg[closure.TOTAL], key) + 1
        /\ CounterTotal(reg2[closure.TOTAL]) = CounterTotal(reg[closure.TOTAL]) + 1

\* Histogram m has one more observation, of `amount`, on series `key`.
HistogramObserved(reg, reg2, m, key, amount) ==
    /\ key \in DOMAIN reg2[m].series
    /\ reg2[m].series[key].sum = HistSumOr0(reg[m], key) + amount
    /\ HistCountOr0(reg2[m], key) = HistCountOr0(reg[m], key) + 1
    /\ HistogramCount(reg2[m]) = HistogramCount(reg[m]) + 1

LatenciesObserved(reg, reg2, closure, info) ==
    /\ HistogramObserved(reg, reg2, closure.LATENCY_HIGHR, <<>>, info.modified_duration)
    /\ HistogramObserved(reg, reg2, closure.LATENCY_LOWR, <<info.modified_handler>>,
                         info.modified_duration)

\* The size summaries of a default bundle observe the Content-Length of the
\* request and of the response, 0 for a missing one.
SizesObserved(reg, reg2, closure, info) ==
    /\ SummaryObserved(reg, reg2, closure.IN_SIZE, <<info.modified_handler>>,
          IF Present(RequestCL(info)) THEN IntOf(RequestCL(info)) ELSE 0)
    /\ SummaryObserved(reg, reg2, closure.OUT_SIZE, <<info.modified_handler>>,
          IF Present(ResponseCL(info)) THEN IntOf(ResponseCL(info)) ELSE 0)

\* The five instruments of every default bundle hold the same number of
\* observations.
RecordedTogether(reg) ==
    \A c \in 1..Len(closures) :
        closures[c].fn = "default" =>
            /\ TotalCount(reg[closures[c].IN_SIZE]) = CounterTotal(reg[closures[c].TOTAL])
            /\ TotalCount(reg[closures[c].OUT_SIZE]) = CounterTotal(reg[closures[c].TOTAL])
            /\ HistogramCount(reg[closures[c].LATENCY_HIGHR]) = CounterTotal(reg[closures[c].TOTAL])
            /\ HistogramCount(reg[closures[c].LATENCY_LOWR]) = CounterTotal(reg[closures[c].TOTAL])

\* C6: every observe call of the default bundle increments the counter
\* exactly once, on the series of the call's method, status and handler, and
\* both latency histograms receive one observation of modified_duration.
C6_DefaultCountsAndTimes ==
    [][ (nobserve' # nobserve /\ call'.op = "default.instrumentation") =>
           /\ CountedOnce(registry, registry', closures[call'.closure], call'.info)
           /\ LatenciesObserved(registry, registry', closures[call'.closure], call'.info) ]_vars

\* C7: in the default bundle a missing Content-Length on the request or on
\* the response is observed as 0 in the corresponding size summary, and after
\* any sequence of observe calls the counter, the two size summaries and the
\* two latency histograms hold the same number of observations.
C7_DefaultRecordsTogether ==
    [][ /\ (nobserve' # nobserve /\ call'.op = "default.instrumentation") =>
              SizesObserved(registry, registry', closures[call'.closure], call'.info)
        /\ RecordedTogether(registry)' ]_vars

\* C6 and C7 on the requests that have a response: the call returns, and
\* each of the five instruments records it once, a missing Content-Length
\* as 0.
DefaultRecordsFiveWithResponse ==
    [][ (/\ nobserve' # nobserve
         /\ call'.op = "default.instrumentation"
         /\ call'.info.response.t # "None") =>
           /\ call'.raised = ""
           /\ CountedOnce(registry, registry', closures[call'.closure], call'.info)
           /\ LatenciesObserved(registry, registry', closures[call'.closure], call'.info)
           /\ SizesObserved(registry, registry', closures[call'.closure], call'.info)
           /\ (RecordedTogether(registry) => RecordedTogether(registry')) ]_vars

Last(seq) == seq[Len(seq)]

\* `out` is `in` when `in` ends in Inf, `in` with one Inf appended otherwise,
\* and normalizing `out` again changes nothing.
NormalizedOnce(in, out) ==
    /\ Last(in) = Inf => out = in
    /\ Last(in) # Inf => /\ Len(out) = Len(in) + 1
                         /\ SubSeq(out, 1, Len(in)) = in
                         /\ Last(out) = Inf
    /\ NormalizeBuckets(out) = out

\* C8: the buckets latency and default hand to their histograms are the
\* given ones when these end in Inf and the given ones with exactly one Inf
\* appended otherwise, normalizing them again changes nothing, and every
\* registered histogram's bucket sequence ends in Inf.
C8_BucketsNormalizedOnce ==
    /\ call.op = "latency" /\ call.raised # IndexError =>
          /\ NormalizedOnce(call.args.buckets, call.args.normalized)
          /\ call.raised = "" => registry[Len(registry)].buckets = call.args.normalized
    /\ call.op = "default" /\ call.raised # IndexError =>
          /\ NormalizedOnce(call.args.latency_highr_buckets, call.args.highr)
          /\ NormalizedOnce(call.args.latency_lowr_buckets, call.args.lowr)
          /\ call.raised = "" =>
                /\ registry[Len(registry) - 1].buckets = call.args.highr
                /\ registry[Len(registry)].buckets = call.args.lowr
    /\ \A i \in 1..Len(registry) :
          registry[i].kind = "histogram" => Last(registry[i].buckets) = Inf

\* default was given high-resolution buckets that end in Inf and
\* low-resolution ones that do not, and registered both histograms.
C8_Witness ==
    /\ call.op = "default"
    /\ call.raised = ""
    /\ call.args.latency_highr_buckets = <<50, Inf>>
    /\ call.args.highr = <<50, Inf>>
    /\ call.args.latency_lowr_buckets = <<10, 50, 100>>
    /\ registry[Len(registry)].buckets = <<10, 50, 100, Inf>>

RECURSIVE CountObserved(_, _, _, _, _)
CountObserved(infos, c, labelnames, key, bound) ==
    IF infos = {} THEN 0
    ELSE LET info == CHOOSE x \in infos : TRUE
         IN  (IF ExpectedKey(labelnames, info) = key /\ info.modified_duration <= bound
              THEN CopiesIn(<<c, info>>, observed) ELSE 0)
             + CountObserved(infos \ {info}, c, labelnames, key, bound)

\* The infos latency closure c has observed.
ObservedInfos(c) == {x[2] : x \in {y \in BagToSet(observed) : y[1] = c}}

\* C9: for a latency histogram with all three labels, the series of label
\* values (handler, method, status) shows in every bucket the number of
\* observe calls made with these label values and a duration no greater than
\* the bucket's bound: n calls with one duration d give n in every bucket
\* whose bound is at least d, the Inf bucket included, and 0 in every bucket
\* below d; series of other label values are not touched, and there is no
\* series without a call.
C9_LatencyCumulativeCounts ==
    \A c \in 1..Len(closures) :
        (closures[c].fn = "latency"
            /\ closures[c].label_names = <<"handler", "method", "status">>) =>
            LET METRIC == registry[closures[c].METRIC]
            IN  /\ DOMAIN METRIC.series =
                      {ExpectedKey(METRIC.labelnames, info) : info \in ObservedInfos(c)}
                /\ \A key \in DOMAIN METRIC.series :
                      /\ key[1] \in {"/items", "none"} /\ key[2] = "GET" /\ key[3] = "2xx"
                      /\ \A i \in 1..Len(METRIC.buckets) :
                            CumulativeCount(METRIC.series[key], i) =
                                CountObserved(ObservedInfos(c), c, METRIC.labelnames,
                                              key, METRIC.buckets[i])

\* Three observations of 42 for /items, GET, 2xx under the buckets 25, 50,
\* 100, Inf: count 0 below 42, count 3 in the bucket covering 42 and in
\* every bucket above it, the Inf bucket included.
C9_Witness ==
    /\ Len(closures) >= 1
    /\ closures[1].fn = "latency"
    /\ registry[closures[1].METRIC].buckets = <<25, 50, 100, Inf>>
    /\ CopiesIn(<<1, MakeInfo(Request(NoHeaders), Response(NoHeaders),
                              "GET", "/items", "2xx", 42)>>, observed) = 3
    /\ <<"/items", "GET", "2xx">> \in DOMAIN registry[closures[1].METRIC].series
    /\ CumulativeCount(registry[closures[1].METRIC].series[<<"/items", "GET", "2xx">>], 1) = 0
    /\ CumulativeCount(registry[closures[1].METRIC].series[<<"/items", "GET", "2xx">>], 2) = 3
    /\ CumulativeCount(registry[closures[1].METRIC].series[<<"/items", "GET", "2xx">>], 4) = 3

====
